---- MODULE Spec2Model ----
(***************************************************************************)
(* Model of the report pipeline of the legal-assistant backend:            *)
(*   - the literature resolver (services/medicalLiteratureService)         *)
(*   - the case routes (routes/cases.ts): report endpoints, case update,   *)
(*     document upload / delete, literature review, reads                  *)
(*   - the pure helpers: detectReferenceCandidates, the mapping of a       *)
(*     provider record to a resolved item, truncateForPrompt               *)
(*   - callOpenAI and its usage log (services/aiClient, services/logger)   *)
(* Every await of a handler is one step of the model.                      *)
(***************************************************************************)
EXTENDS Integers, Sequences, FiniteSets, TLC

\* ---------------------------------------------------------------- bounds
MaxCitations == 10       \* longest candidate list handed to the resolver
MaxOps == 2              \* requests started in one behaviour
MaxRaceOps == 2          \* requests started in a behaviour of two at a time
MaxDbFaults == 1         \* database queries that fail in one behaviour
MaxDocLines == 1         \* citation-like lines in one stored document
PayloadLines == 1        \* citation-like lines in a reportAText / reportBText
MaxLines == 2            \* sample lines in a text handed to the detector
MaxLimit == 2            \* largest explicit limit handed to the detector
MaxTextLen == 4          \* longest short text handed to truncateForPrompt
MaxBudget == 3           \* largest explicit budget handed to truncateForPrompt
MaxLogEntries == 2       \* generation attempts in a behaviour of the usage log

\* ------------------------------------------------------ program constants
DEFAULT_RESOLVE_LIMIT == 8
DEFAULT_MAX_REFERENCES_PER_DOCUMENT == 4
DEFAULT_MAX_REFERENCES_PER_REPORT == 10

VARIABLES
  citations,          \* resolver run: the list passed to resolveLiteratureReferences
  rs,                 \* resolver run: locals of resolveLiteratureReferences
  caseRow,            \* the cases row: app_state, initial_report, comparison_report
  documents,          \* case_documents rows of the case, by document id
  req,                \* in-flight requests, one per connection slot
  nOps,               \* requests started so far
  dbFaults,           \* failed database queries so far
  fn,                 \* a run of one pure function: its inputs and its result
  usage               \* the cases that exist, the ai_usage_logs table, a case delete

vars == <<citations, rs, caseRow, documents, req, nOps, dbFaults, fn, usage>>

Min(a, b) == IF a < b THEN a ELSE b

Range(s) == {s[i] : i \in 1..Len(s)}

\* ===================================================== literature resolver

\* What one provider round trip can produce: a first match, an empty result
\* list, a non-OK HTTP status, or a rejected fetch / unparsable body.
ProviderOutcomes == {"match", "empty", "notok", "throw"}

\* querySemanticScholar: null on !response.ok or no first element, an item
\* tagged "semantic-scholar" otherwise; fetch()/json() may reject.
querySemanticScholar(candidate, outcome) ==
  CASE outcome = "throw" -> [kind |-> "throw", source |-> "none", matchedCitation |-> candidate]
    [] outcome \in {"notok", "empty"} -> [kind |-> "null", source |-> "none", matchedCitation |-> candidate]
    [] OTHER -> [kind |-> "item", source |-> "semantic-scholar", matchedCitation |-> candidate]

\* queryCrossref: same shape, tagged "crossref".
queryCrossrefFirstCandidate(candidate, outcome) ==
  CASE outcome = "throw" -> [kind |-> "throw", source |-> "none", matchedCitation |-> candidate]
    [] outcome \in {"notok", "empty"} -> [kind |-> "null", source |-> "none", matchedCitation |-> candidate]
    [] OTHER -> [kind |-> "item", source |-> "crossref", matchedCitation |-> 1]
queryCrossref(candidate, outcome) ==
  CASE outcome = "throw" -> [kind |-> "throw", source |-> "none", matchedCitation |-> candidate]
    [] outcome \in {"notok", "empty"} -> [kind |-> "null", source |-> "none", matchedCitation |-> candidate]
    [] OTHER -> [kind |-> "item", source |-> "crossref", matchedCitation |-> candidate]

\* citations.slice(0, limit)
scopedCitations(cits) == SubSeq(cits, 1, Min(Len(cits), DEFAULT_RESOLVE_LIMIT))

RsIdle ==
  [phase |-> "idle", scoped |-> <<>>, idx |-> 0, resolved |-> <<>>,
   handledIds |-> {}, unresolved |-> <<>>, calls |-> <<>>, caught |-> FALSE]

\* scopedCitations.filter(c => !handledIds.has(c.id))
FilterUnresolved(scoped, handled) ==
  SelectSeq(scoped, LAMBDA c : c \notin handled)

\* Loop head of `for (const candidate of scopedCitations)`: either the next
\* candidate's Semantic Scholar call, or the final filter and return.
RsAdvance(r) ==
  IF r.idx + 1 <= Len(r.scoped)
    THEN [r EXCEPT !.idx = r.idx + 1, !.phase = "A"]
    ELSE [r EXCEPT !.idx = r.idx + 1, !.phase = "done",
                   !.unresolved = FilterUnresolved(r.scoped, r.handledIds)]

\* Entry of resolveLiteratureReferences up to the first await.
RsStart(cits) ==
  IF Len(cits) = 0
    THEN [RsIdle EXCEPT !.phase = "done"]
    ELSE RsAdvance([RsIdle EXCEPT !.scoped = scopedCitations(cits)])

\* History of the provider calls made so far (who was asked about which
\* candidate, and whether an item came back), and whether a catch block ran.
LogCall(r, provider, result) ==
  [r EXCEPT !.calls = Append(r.calls, [cand |-> r.scoped[r.idx], provider |-> provider,
                                       hit |-> (result.kind = "item")]),
            !.caught = r.caught \/ result.kind = "throw"]

\* Continuation after `await querySemanticScholar(...)`: push + continue on a
\* result, fall through to CrossRef on null or on a caught exception.
SemanticPropagate(r, result) ==
  LET logged == LogCall(r, "semantic-scholar", result) IN
  CASE result.kind = "item" ->
         RsAdvance([logged EXCEPT !.resolved = Append(r.resolved, result),
                                  !.handledIds = r.handledIds \cup {r.scoped[r.idx]}])
    [] result.kind = "throw" -> [logged EXCEPT !.phase = "threw"]
    [] OTHER -> [logged EXCEPT !.phase = "B"]
SemanticAlsoCrossref(r, result) ==
  LET logged == LogCall(r, "semantic-scholar", result) IN
  IF result.kind = "item"
    THEN [logged EXCEPT !.resolved = Append(r.resolved, result),
                        !.handledIds = r.handledIds \cup {r.scoped[r.idx]},
                        !.phase = "B"]
    ELSE [logged EXCEPT !.phase = "B"]
AfterSemantic(r, result) ==
  LET logged == LogCall(r, "semantic-scholar", result) IN
  IF result.kind = "item"
    THEN RsAdvance([logged EXCEPT !.resolved = Append(r.resolved, result),
                                  !.handledIds = r.handledIds \cup {r.scoped[r.idx]}])
    ELSE [logged EXCEPT !.phase = "B"]

\* Continuation after `await queryCrossref(...)`.
CrossrefForgetHandled(r, result) ==
  LET logged == LogCall(r, "crossref", result) IN
  IF result.kind = "item"
    THEN RsAdvance([logged EXCEPT !.resolved = Append(r.resolved, result)])
    ELSE RsAdvance(logged)
AfterCrossref(r, result) ==
  LET logged == LogCall(r, "crossref", result) IN
  IF result.kind = "item"
    THEN RsAdvance([logged EXCEPT !.resolved = Append(r.resolved, result),
                                  !.handledIds = r.handledIds \cup {r.scoped[r.idx]}])
    ELSE RsAdvance(logged)

\* One await of the resolver loop.
RsStepRetry(r, outcome) ==
  IF r.phase = "A"
    THEN LET result == querySemanticScholar(r.scoped[r.idx], outcome) IN
         IF result.kind = "item" THEN AfterSemantic(r, result)
         ELSE LogCall(r, "semantic-scholar", result)
    ELSE AfterCrossref(r, queryCrossref(r.scoped[r.idx], outcome))
RsStep(r, outcome) ==
  IF r.phase = "A"
    THEN AfterSemantic(r, querySemanticScholar(r.scoped[r.idx], outcome))
    ELSE AfterCrossref(r, queryCrossref(r.scoped[r.idx], outcome))

\* ============================================================ case routes

Slots == {1, 2}                 \* requests the server handles at a time
DocIds == {1, 2}                \* ids a case document can have
ExistingCase == "c1"            \* the case that exists; "c0" names no case
CaseIds == {"c1", "c0"}
CaseOwner == "owner"
Users == {"owner", "other", "admin"}

NULL == 0                       \* SQL NULL in a report column
Absent == -1                    \* a field the request body does not carry
EmptyText == -2                 \* the empty string
PutText == 100                  \* a report text sent in a PUT body

NoDoc == [present |-> FALSE, text |-> FALSE, lines |-> 0, expert |-> FALSE]

\* The documents an upload can store: an expert opinion with citation-like
\* lines, a plain attachment without any, and a scan with no extractable text.

Cited == [present |-> TRUE, text |-> TRUE, lines |-> MaxDocLines, expert |-> TRUE]
Plain == [present |-> TRUE, text |-> TRUE, lines |-> 0, expert |-> FALSE]
Scan == [present |-> TRUE, text |-> FALSE, lines |-> 0, expert |-> FALSE]

\* Document sets earlier uploads have left in the case.
InitDocuments ==
  { [d \in DocIds |-> NoDoc],
    [d \in DocIds |-> IF d = 1 THEN Cited ELSE Plain],
    [d \in DocIds |-> IF d = 1 THEN Cited ELSE Scan] }

NoRow == [found |-> FALSE, app_state |-> "idle", initial_report |-> NULL,
          comparison_report |-> NULL]

\* A response: HTTP status (0: none sent), the message of its JSON body
\* ("" when the body has no message field), whether it carries details.
NoResp == [status |-> 0, message |-> "", details |-> FALSE]

NoBody == [kind |-> "none"]

IdleReq ==
  [op |-> "none", pc |-> "idle", id |-> 0, user |-> "owner", caseId |-> "c1",
   body |-> NoBody, row |-> NoRow, docA |-> NoDoc, docB |-> NoDoc,
   res |-> RsIdle, fallback |-> FALSE, gen |-> "none", text |-> NULL,
   resp |-> NoResp,
   \* history of the request, for stating properties
   before |-> NoRow, wrote |-> FALSE, disturbed |-> FALSE, err |-> "none",
   providerCalls |-> 0, providerMisses |-> 0,
   docBlock |-> "none", logs |-> <<>>, logFailed |-> FALSE, answered |-> FALSE]

\* No pure-function run in progress.
FnIdle == [name |-> "none"]

\* No case delete in progress.
NoDelete == [pc |-> "idle", user |-> "owner", caseId |-> "c1", status |-> 0]

\* The usage log before any generation call: the cases of the owner exist,
\* ai_usage_logs is empty.
LogCases == {"c1", "c2"}
UsageIdle == [cases |-> LogCases, log |-> {}, nextId |-> 1, del |-> NoDelete, totalCalls |-> 0]

\* State after setup: the case exists, idle, with no report; no request yet.
InitCases ==
  /\ caseRow = [app_state |-> "idle", initial_report |-> NULL, comparison_report |-> NULL]
  /\ documents \in InitDocuments
  /\ req = [s \in Slots |-> IdleReq]
  /\ nOps = 0
  /\ dbFaults = 0
  /\ fn = FnIdle
  /\ usage = UsageIdle

Init ==
  /\ citations = <<>>
  /\ rs = RsIdle
  /\ InitCases

\* canAccessCase
AnyoneCanAccess(user, owner) == TRUE
canAccessCase(user, owner) == user = "admin" \/ owner = user

\* A database query either completes or rejects.
QueryFails == IF dbFaults < MaxDbFaults THEN {FALSE, TRUE} ELSE {FALSE}

\* getCaseRow: SELECT * FROM cases WHERE id = $1
getCaseRow(caseId) ==
  IF caseId = ExistingCase
    THEN [found |-> TRUE, app_state |-> caseRow.app_state,
          initial_report |-> caseRow.initial_report,
          comparison_report |-> caseRow.comparison_report]
    ELSE NoRow

\* getCaseDocumentById
getCaseDocumentById(caseId, docId) ==
  IF caseId = ExistingCase /\ docId \in DocIds THEN documents[docId] ELSE NoDoc

\* setCaseAppState: UPDATE cases SET app_state = $1 WHERE id = $2
setCaseAppState(row, caseId, state) ==
  IF caseId = ExistingCase THEN [row EXCEPT !.app_state = state] ELSE row

\* The handler returns: its locals are gone, its history stays.
Finish(r) ==
  [r EXCEPT !.pc = "done", !.body = NoBody, !.row = NoRow, !.docA = NoDoc, !.docB = NoDoc,
            !.res = RsIdle,
            !.providerCalls = Len(r.res.calls),
            !.providerMisses = Cardinality({i \in 1..Len(r.res.calls) : ~r.res.calls[i].hit})]

\* res.status(...).json(...) and the handler's return
Respond(r, status, message, details) ==
  [Finish(r) EXCEPT !.resp = [status |-> status, message |-> message, details |-> details]]

\* Request s writes rows of the case: every other request that has started
\* has from now on seen another request touch the case.
Disturb(reqs, s) ==
  [t \in Slots |-> IF t # s /\ reqs[t].pc # "idle" /\ reqs[s].caseId = ExistingCase
                     THEN [reqs[t] EXCEPT !.disturbed = TRUE] ELSE reqs[t]]

SetReq(reqs, s, r) == [reqs EXCEPT ![s] = r]

ReportOps == {"initial-report", "comparison-report"}

\* ------------------------------------------------------- request arrival
ComparisonBodies ==
  { b \in [kind : {"comparison"}, reportAId : DocIds \cup {Absent}, reportBId : DocIds \cup {Absent},
           reportAText : {Absent, PayloadLines}, reportBText : {Absent, PayloadLines}] :
      b.reportAText = b.reportBText }

LiteratureBodies == [kind : {"literature"}, clinicalQuestion : BOOLEAN]

PutBodies ==
  { [kind |-> "put", initialReport |-> Absent, comparisonReport |-> Absent, appState |-> "absent"],
    [kind |-> "put", initialReport |-> PutText, comparisonReport |-> Absent, appState |-> "absent"],
    [kind |-> "put", initialReport |-> Absent, comparisonReport |-> PutText, appState |-> "absent"],
    [kind |-> "put", initialReport |-> Absent, comparisonReport |-> Absent, appState |-> "success"] }

DocBodies == [kind : {"doc"}, docId : DocIds]

UploadBodies == [kind : {"upload"}, file : {Cited, NoDoc}, docId : DocIds]

Bodies(op) ==
  CASE op = "comparison-report" -> ComparisonBodies
    [] op = "literature-review" -> LiteratureBodies
    [] op = "put" -> PutBodies
    [] op = "delete-document" -> DocBodies
    [] op = "upload" -> UploadBodies
    [] OTHER -> {NoBody}

Ops == {"initial-report", "comparison-report", "literature-review", "put",
        "delete-document", "upload", "get"}

\* Validation that runs before the first await of a handler.
MissingFields(op, body) ==
  CASE op = "comparison-report" -> body.reportAId = Absent \/ body.reportBId = Absent
    [] op = "literature-review" -> ~body.clinicalQuestion
    [] OTHER -> FALSE

NewReq(op, user, caseId, body) ==
  LET r == [IdleReq EXCEPT !.op = op, !.pc = "lookup", !.id = nOps + 1, !.user = user,
                           !.caseId = caseId, !.body = body, !.before = getCaseRow(ExistingCase)]
  IN IF MissingFields(op, body) THEN Respond(r, 400, "required", FALSE) ELSE r

\* Document ids not taken by a stored document or by an upload in flight.
FreeDocIds ==
  {d \in DocIds : ~documents[d].present
                   /\ \A t \in Slots : ~(req[t].op = "upload" /\ req[t].pc # "done"
                                           /\ req[t].body.docId = d)}

\* A request arrives on a free connection (authMiddleware has set req.user).
Start(s) ==
  /\ req[s].pc \in {"idle", "done"}
  /\ nOps < MaxOps
  /\ \E op \in Ops, user \in Users, caseId \in CaseIds :
       \E body \in Bodies(op) :
         /\ op = "upload" => /\ body.docId \in FreeDocIds
                              /\ \A d \in FreeDocIds : body.docId <= d
         /\ req' = SetReq(req, s, NewReq(op, user, caseId, body))
  /\ nOps' = nOps + 1
  /\ UNCHANGED <<usage, fn, citations, rs, caseRow, documents, dbFaults>>

\* ------------------------------------------------ report requests: lookup
\* Where a report handler goes after `await getCaseRow(id)`.
ReportPrecheck(r, row) ==
  IF ~row.found THEN Respond(r, 404, "Case not found", FALSE)
  ELSE IF ~canAccessCase(r.user, CaseOwner) THEN Respond(r, 403, "Forbidden", FALSE)
  ELSE [r EXCEPT !.pc = "setProcessing", !.row = row]

\* The outer catch block is entered with the error of the failed stage.
Throw(r, stage) == [r EXCEPT !.pc = "catch", !.err = stage]

ReportLookup(s) ==
  /\ req[s].op \in ReportOps
  /\ req[s].pc = "lookup"
  /\ \E fails \in QueryFails :
       IF fails
         THEN /\ req' = SetReq(req, s, Throw(req[s], "lookup"))
              /\ dbFaults' = dbFaults + 1
         ELSE /\ req' = SetReq(req, s, ReportPrecheck(req[s], getCaseRow(req[s].caseId)))
              /\ UNCHANGED dbFaults
  /\ UNCHANGED <<usage, fn, citations, rs, caseRow, documents, nOps>>

\* await setCaseAppState(id, "processing")
ProcessingWriteDeferred(row, caseId) == row
ProcessingWrite(row, caseId) == setCaseAppState(row, caseId, "processing")

ReportSetProcessingGuarded(s) ==
  /\ req[s].op \in ReportOps
  /\ req[s].pc = "setProcessing"
  /\ IF caseRow.app_state = "processing"
       THEN /\ req' = SetReq(req, s, Respond(req[s], 409, "Report in progress", FALSE))
            /\ UNCHANGED <<caseRow, dbFaults>>
       ELSE /\ caseRow' = ProcessingWrite(caseRow, req[s].caseId)
            /\ req' = SetReq(Disturb(req, s), s,
                 [req[s] EXCEPT !.pc = IF req[s].op = "initial-report" THEN "getDocs" ELSE "getDocA",
                                !.wrote = (caseRow'.app_state = "processing")])
            /\ UNCHANGED dbFaults
  /\ UNCHANGED <<usage, fn, citations, rs, documents, nOps>>
ReportSetProcessing(s) ==
  /\ req[s].op \in ReportOps
  /\ req[s].pc = "setProcessing"
  /\ \E fails \in QueryFails :
       IF fails
         THEN /\ req' = SetReq(req, s, Throw(req[s], "setProcessing"))
              /\ dbFaults' = dbFaults + 1
              /\ UNCHANGED caseRow
         ELSE /\ caseRow' = ProcessingWrite(caseRow, req[s].caseId)
              /\ req' = SetReq(Disturb(req, s), s,
                   [req[s] EXCEPT !.pc = IF req[s].op = "initial-report" THEN "getDocs" ELSE "getDocA",
                                  !.wrote = (caseRow'.app_state = "processing")])
              /\ UNCHANGED dbFaults
  /\ UNCHANGED <<usage, fn, citations, rs, documents, nOps>>

\* --------------------------------------------- report requests: citations
\* detectReferenceCandidates on a text with `lines` citation-like lines: at
\* most MAX_REFERENCES_PER_DOCUMENT candidates, ids unique per detection pass.
detectReferenceCandidates(hasText, lines, idBase) ==
  IF ~hasText THEN <<>>
  ELSE [i \in 1..Min(lines, DEFAULT_MAX_REFERENCES_PER_DOCUMENT) |-> idBase + i]

\* getCaseDocuments: the stored documents, newest first.
DocOrder == <<2, 1>>
getCaseDocuments(caseId) ==
  IF caseId = ExistingCase THEN SelectSeq(DocOrder, LAMBDA d : documents[d].present) ELSE <<>>

RECURSIVE FlatMapCandidates(_)
FlatMapCandidates(docs) ==
  IF Len(docs) = 0 THEN <<>>
  ELSE detectReferenceCandidates(documents[Head(docs)].text, documents[Head(docs)].lines,
                                 10 * Head(docs))
       \o FlatMapCandidates(Tail(docs))

\* documents.filter(isLikelyExpertOpinion), or all documents if none matches
docsForAnalysis(docs) ==
  LET expertOpinionDocs == SelectSeq(docs, LAMBDA d : documents[d].expert)
  IN IF Len(expertOpinionDocs) > 0 THEN expertOpinionDocs ELSE docs

\* citationCandidates.slice(0, MAX_REFERENCES_PER_REPORT)
ScopeToReport(cands) == SubSeq(cands, 1, Min(Len(cands), DEFAULT_MAX_REFERENCES_PER_REPORT))

\* The call of resolveLiteratureReferences up to its first await, and then
\* the prompt and the generation call once it has returned.
EnterResolver(r, cands) ==
  LET res == RsStart(cands) IN
  [r EXCEPT !.res = res, !.pc = IF res.phase = "done" THEN "generate" ELSE "resolve"]

\* docsForAnalysis.map(...).join("\n\n"): one block per document, and the
\* empty string when there is none.
detailedDocBlock(docs) == IF Len(docs) = 0 THEN "empty" ELSE "blocks"

\* buildExpertOpinionsBlock: the same blocks, and a placeholder sentence when
\* there is no document.  No handler calls it.
buildExpertOpinionsBlock(docs) == IF Len(docs) = 0 THEN "placeholder" ELSE "blocks"

InitialGetDocs(s) ==
  /\ req[s].op = "initial-report"
  /\ req[s].pc = "getDocs"
  /\ \E fails \in QueryFails :
       IF fails
         THEN /\ req' = SetReq(req, s, Throw(req[s], "getDocs"))
              /\ dbFaults' = dbFaults + 1
         ELSE /\ req' = SetReq(req, s,
                   EnterResolver(
                     [req[s] EXCEPT !.docBlock =
                        detailedDocBlock(docsForAnalysis(getCaseDocuments(req[s].caseId)))],
                     ScopeToReport(FlatMapCandidates(docsForAnalysis(getCaseDocuments(req[s].caseId))))))
              /\ UNCHANGED dbFaults
  /\ UNCHANGED <<usage, fn, citations, rs, caseRow, documents, nOps>>

ComparisonGetDocA(s) ==
  /\ req[s].op = "comparison-report"
  /\ req[s].pc = "getDocA"
  /\ \E fails \in QueryFails :
       IF fails
         THEN /\ req' = SetReq(req, s, Throw(req[s], "getDocA"))
              /\ dbFaults' = dbFaults + 1
         ELSE /\ req' = SetReq(req, s,
                   [req[s] EXCEPT !.docA = getCaseDocumentById(req[s].caseId, req[s].body.reportAId),
                                  !.pc = "getDocB"])
              /\ UNCHANGED dbFaults
  /\ UNCHANGED <<usage, fn, citations, rs, caseRow, documents, nOps>>

\* After `await getCaseDocumentById(id, payload.reportBId)`: the two early
\* returns, then detection on both texts and the resolver call.
ComparisonInputs(r, docB) ==
  LET docA == r.docA
      aHasText == r.body.reportAText # Absent \/ docA.text
      bHasText == r.body.reportBText # Absent \/ docB.text
      aLines == IF r.body.reportAText # Absent THEN r.body.reportAText ELSE docA.lines
      bLines == IF r.body.reportBText # Absent THEN r.body.reportBText ELSE docB.lines
      withB == [r EXCEPT !.docB = docB]
  IN IF ~docA.present \/ ~docB.present
       THEN Respond(withB, 404, "documents not found", FALSE)
     ELSE IF ~aHasText \/ ~bHasText
       THEN Respond(withB, 400, "no extracted text", FALSE)
     ELSE EnterResolver(withB,
            ScopeToReport(detectReferenceCandidates(TRUE, aLines, 100 + 10 * r.body.reportAId)
                          \o detectReferenceCandidates(TRUE, bLines, 200 + 10 * r.body.reportBId)))

ComparisonGetDocB(s) ==
  /\ req[s].op = "comparison-report"
  /\ req[s].pc = "getDocB"
  /\ \E fails \in QueryFails :
       IF fails
         THEN /\ req' = SetReq(req, s, Throw(req[s], "getDocB"))
              /\ dbFaults' = dbFaults + 1
         ELSE /\ req' = SetReq(req, s,
                   ComparisonInputs(req[s], getCaseDocumentById(req[s].caseId, req[s].body.reportBId)))
              /\ UNCHANGED dbFaults
  /\ UNCHANGED <<usage, fn, citations, rs, caseRow, documents, nOps>>

\* The catch around the resolver call: the prompt lists every scoped
\* candidate as unresolved and the handler goes on to the generation call.
ResolverFailurePropagates(r) == Throw(r, "resolver")
ResolverFailure(r) == [r EXCEPT !.fallback = TRUE, !.pc = "generate"]

\* One provider round trip of the resolver call awaited by a report request.
ReportProviderReplies(s) ==
  /\ req[s].op \in ReportOps
  /\ req[s].pc = "resolve"
  /\ \E outcome \in ProviderOutcomes :
       LET res == RsStep(req[s].res, outcome)
           r == [req[s] EXCEPT !.res = res]
       IN req' = SetReq(req, s,
                   CASE res.phase = "done" -> [r EXCEPT !.pc = "generate"]
                     [] res.phase = "threw" -> ResolverFailure(r)
                     [] OTHER -> r)
  /\ UNCHANGED <<usage, fn, citations, rs, caseRow, documents, nOps, dbFaults>>

\* The resolver promise rejects.
ReportResolverRejects(s) ==
  /\ req[s].op \in ReportOps
  /\ req[s].pc = "resolve"
  /\ req' = SetReq(req, s, ResolverFailure(req[s]))
  /\ UNCHANGED <<usage, fn, citations, rs, caseRow, documents, nOps, dbFaults>>

\* What the prompt shows: the resolved items and the unresolved candidates.
PromptLiterature(r) == IF r.fallback THEN <<>> ELSE r.res.resolved
PromptUnresolved(r) == IF r.fallback THEN r.res.scoped ELSE r.res.unresolved

\* ------------------------------------- report requests: generate, persist
\* What a call of callOpenAI can meet: no API key configured; a fetch that
\* rejects, a body that is no JSON, a non-OK response; or an OK response
\* whose trimmed content is some text or empty.
GenerationFailures == {"rejected", "unparsable", "notok"}
GenerationOutcomes == {"text", "empty", "nokey"} \cup GenerationFailures

\* logAiEvent: appends one entry to the usage log; a failure to persist the
\* entry is swallowed, the caller sees a normal return.
logAiEvent(status, fails) == IF fails THEN <<>> ELSE <<status>>

\* callOpenAI with metadata: whether it throws, the entries it logged,
\* whether a log write failed, and whether the provider answered with content.  The missing key throws before the try block,
\* every other failure is logged in the catch block and rethrown.
callOpenAILogFatal(outcome, logFails) ==
  IF outcome = "nokey"
    THEN [threw |-> TRUE, logs |-> <<>>, logFailed |-> FALSE, answered |-> FALSE]
  ELSE IF outcome \in GenerationFailures
    THEN [threw |-> TRUE, logs |-> logAiEvent("error", logFails), logFailed |-> logFails,
          answered |-> FALSE]
  ELSE [threw |-> logFails, logs |-> logAiEvent("success", logFails), logFailed |-> logFails,
        answered |-> TRUE]
callOpenAI(outcome, logFails) ==
  IF outcome = "nokey"
    THEN [threw |-> TRUE, logs |-> <<>>, logFailed |-> FALSE, answered |-> FALSE]
  ELSE IF outcome \in GenerationFailures
    THEN [threw |-> TRUE, logs |-> logAiEvent("error", logFails), logFailed |-> logFails,
          answered |-> FALSE]
  ELSE [threw |-> FALSE, logs |-> logAiEvent("success", logFails), logFailed |-> logFails,
        answered |-> TRUE]

\* The request after its callOpenAI call: what was logged, and then the
\* catch block or the next statement.
Logged(r, call) ==
  [r EXCEPT !.logs = r.logs \o call.logs, !.logFailed = call.logFailed,
            !.answered = call.answered]

AfterGenerationRetry(r, outcome, logFails) ==
  LET call == callOpenAI(outcome, logFails) IN
  IF call.threw THEN [r EXCEPT !.gen = "throw"]
  ELSE IF outcome = "empty"
    THEN [Logged(r, call) EXCEPT !.gen = "empty", !.text = EmptyText, !.pc = "persist"]
  ELSE [Logged(r, call) EXCEPT !.gen = "text", !.text = r.id, !.pc = "persist"]
AfterGeneration(r, outcome, logFails) ==
  LET call == callOpenAI(outcome, logFails) IN
  IF call.threw THEN [Throw(Logged(r, call), "generation") EXCEPT !.gen = "throw"]
  ELSE IF outcome = "empty"
    THEN [Logged(r, call) EXCEPT !.gen = "empty", !.text = EmptyText, !.pc = "persist"]
  ELSE [Logged(r, call) EXCEPT !.gen = "text", !.text = r.id, !.pc = "persist"]

ReportGenerate(s) ==
  /\ req[s].op \in ReportOps
  /\ req[s].pc = "generate"
  /\ \E outcome \in GenerationOutcomes, logFails \in QueryFails :
       /\ logFails => outcome # "nokey"
       /\ req' = SetReq(req, s, AfterGeneration(req[s], outcome, logFails))
       /\ dbFaults' = IF logFails THEN dbFaults + 1 ELSE dbFaults
  /\ UNCHANGED <<usage, fn, citations, rs, caseRow, documents, nOps>>

\* UPDATE cases SET <report column> = $1, app_state = 'idle' WHERE id = $3
PersistReportOnly(row, op, text) ==
  IF op = "initial-report" THEN [row EXCEPT !.initial_report = text]
                           ELSE [row EXCEPT !.comparison_report = text]
PersistReportFirstWins(row, op, text) ==
  IF op = "initial-report"
    THEN [row EXCEPT !.initial_report = IF @ = NULL THEN text ELSE @, !.app_state = "idle"]
    ELSE [row EXCEPT !.comparison_report = IF @ = NULL THEN text ELSE @, !.app_state = "idle"]
PersistReport(row, op, text) ==
  IF op = "initial-report"
    THEN [row EXCEPT !.initial_report = text, !.app_state = "idle"]
    ELSE [row EXCEPT !.comparison_report = text, !.app_state = "idle"]

ReportPersist(s) ==
  /\ req[s].op \in ReportOps
  /\ req[s].pc = "persist"
  /\ \E fails \in QueryFails :
       IF fails
         THEN /\ req' = SetReq(req, s, Throw(req[s], "persist"))
              /\ dbFaults' = dbFaults + 1
              /\ UNCHANGED caseRow
         ELSE /\ caseRow' = PersistReport(caseRow, req[s].op, req[s].text)
              /\ req' = SetReq(Disturb(req, s), s, Respond(req[s], 200, "", FALSE))
              /\ UNCHANGED dbFaults
  /\ UNCHANGED <<usage, fn, citations, rs, documents, nOps>>

\* catch (error) { await setCaseAppState(id, "error"); res.status(500)... }
\* A rejected setCaseAppState leaves the handler without a response.
CatchKeepsState(row, caseId) == row
CatchWrite(row, caseId) == setCaseAppState(row, caseId, "error")

ReportCatch(s) ==
  /\ req[s].op \in ReportOps
  /\ req[s].pc = "catch"
  /\ \E fails \in QueryFails :
       IF fails
         THEN /\ req' = SetReq(req, s, Finish(req[s]))
              /\ dbFaults' = dbFaults + 1
              /\ UNCHANGED caseRow
         ELSE /\ caseRow' = CatchWrite(caseRow, req[s].caseId)
              /\ req' = SetReq(Disturb(req, s), s, Respond(req[s], 500, "Failed to generate report", TRUE))
              /\ UNCHANGED dbFaults
  /\ UNCHANGED <<usage, fn, citations, rs, documents, nOps>>

\* ------------------------------------------------------ literature review
\* Existence and access checks shared by the other handlers: 404, 403, or on
\* to the handler's next await with the row that was read.
Precheck(r, row, nextPc) ==
  IF ~row.found THEN Respond(r, 404, "Case not found", FALSE)
  ELSE IF ~canAccessCase(r.user, CaseOwner) THEN Respond(r, 403, "Forbidden", FALSE)
  ELSE [r EXCEPT !.pc = nextPc, !.row = row]

\* catch blocks of the handlers that write nothing: 500 with a message.
Fail500(r, stage, details) ==
  Respond([r EXCEPT !.err = stage], 500, "Internal server error", details)

NextPc(op) ==
  CASE op = "literature-review" -> "generate"
    [] op = "put" -> "update"
    [] op = "delete-document" -> "getDoc"
    [] op = "upload" -> "insert"
    [] OTHER -> "read"

\* The first query of the handlers other than the report endpoints.
Lookup(s) ==
  /\ req[s].op \in Ops \ ReportOps
  /\ req[s].pc = "lookup"
  /\ \E fails \in QueryFails :
       IF fails
         THEN /\ req' = SetReq(req, s, Fail500(req[s], "lookup", req[s].op = "literature-review"))
              /\ dbFaults' = dbFaults + 1
         ELSE /\ req' = SetReq(req, s,
                   Precheck(req[s], getCaseRow(req[s].caseId), NextPc(req[s].op)))
              /\ UNCHANGED dbFaults
  /\ UNCHANGED <<usage, fn, citations, rs, caseRow, documents, nOps>>

\* What the generation call of a literature review can give back: a JSON
\* object, text that is no JSON, the JSON value null, or an exception.
StructuredOutcomes == {"object", "nonjson", "null", "nokey"} \cup GenerationFailures

\* JSON.parse with the raw-text fallback, then the field normalisation; a
\* parsed null makes the normalisation throw into the handler's catch.
AfterStructured(r, outcome, logFails) ==
  LET call == callOpenAI(outcome, logFails) IN
  IF call.threw THEN Fail500([Logged(r, call) EXCEPT !.gen = "throw"], "generation", TRUE)
  ELSE IF outcome = "null" THEN Fail500([Logged(r, call) EXCEPT !.gen = "null"], "normalise", TRUE)
  ELSE Respond([Logged(r, call) EXCEPT !.gen = outcome], 200, "", FALSE)

LiteratureGenerate(s) ==
  /\ req[s].op = "literature-review"
  /\ req[s].pc = "generate"
  /\ \E outcome \in StructuredOutcomes, logFails \in QueryFails :
       /\ logFails => outcome # "nokey"
       /\ req' = SetReq(req, s, AfterStructured(req[s], outcome, logFails))
       /\ dbFaults' = IF logFails THEN dbFaults + 1 ELSE dbFaults
  /\ UNCHANGED <<usage, fn, citations, rs, caseRow, documents, nOps>>

\* ------------------------------------------------------------ case update
\* `caseUpdates.x ?? currentCase.x`
Coalesce(value, current) == IF value = Absent THEN current ELSE value

\* UPDATE cases SET ..., initial_report = $4, comparison_report = $5,
\* app_state = $6: body fields, else the values read by the SELECT before.
PutWrite(row, body, current) ==
  [row EXCEPT !.initial_report = Coalesce(body.initialReport, current.initial_report),
              !.comparison_report = Coalesce(body.comparisonReport, current.comparison_report),
              !.app_state = IF body.appState = "absent" THEN current.app_state
                                                         ELSE body.appState]

PutUpdate(s) ==
  /\ req[s].op = "put"
  /\ req[s].pc = "update"
  /\ \E fails \in QueryFails :
       IF fails
         THEN /\ req' = SetReq(req, s, Fail500(req[s], "update", FALSE))
              /\ dbFaults' = dbFaults + 1
              /\ UNCHANGED caseRow
         ELSE /\ caseRow' = PutWrite(caseRow, req[s].body, req[s].row)
              /\ req' = SetReq(Disturb(req, s), s, Respond(req[s], 200, "", FALSE))
              /\ UNCHANGED dbFaults
  /\ UNCHANGED <<usage, fn, citations, rs, documents, nOps>>

\* -------------------------------------------------------- document delete
DeleteGetDoc(s) ==
  /\ req[s].op = "delete-document"
  /\ req[s].pc = "getDoc"
  /\ \E fails \in QueryFails :
       IF fails
         THEN /\ req' = SetReq(req, s, Fail500(req[s], "getDoc", FALSE))
              /\ dbFaults' = dbFaults + 1
         ELSE /\ req' = SetReq(req, s,
                   IF getCaseDocumentById(req[s].caseId, req[s].body.docId).present
                     THEN [req[s] EXCEPT !.pc = "deleteDoc"]
                     ELSE Respond(req[s], 404, "Document not found", FALSE))
              /\ UNCHANGED dbFaults
  /\ UNCHANGED <<usage, fn, citations, rs, caseRow, documents, nOps>>

\* After the DELETE: `if (caseRow.app_state === "processing")` on the row
\* read at the start of the handler.
AlwaysResetState(r) == [r EXCEPT !.pc = "resetState"]
AfterDocumentDelete(r) ==
  IF r.row.app_state = "processing" THEN [r EXCEPT !.pc = "resetState"]
                                    ELSE Respond(r, 204, "", FALSE)

DeleteDocument(s) ==
  /\ req[s].op = "delete-document"
  /\ req[s].pc = "deleteDoc"
  /\ \E fails \in QueryFails :
       IF fails
         THEN /\ req' = SetReq(req, s, Fail500(req[s], "deleteDoc", FALSE))
              /\ dbFaults' = dbFaults + 1
              /\ UNCHANGED documents
         ELSE /\ documents' = [documents EXCEPT ![req[s].body.docId] = NoDoc]
              /\ req' = SetReq(Disturb(req, s), s, AfterDocumentDelete(req[s]))
              /\ UNCHANGED dbFaults
  /\ UNCHANGED <<usage, fn, citations, rs, caseRow, nOps>>

\* await setCaseAppState(id, "idle")
DeleteResetState(s) ==
  /\ req[s].op = "delete-document"
  /\ req[s].pc = "resetState"
  /\ \E fails \in QueryFails :
       IF fails
         THEN /\ req' = SetReq(req, s, Fail500(req[s], "resetState", FALSE))
              /\ dbFaults' = dbFaults + 1
              /\ UNCHANGED caseRow
         ELSE /\ caseRow' = setCaseAppState(caseRow, req[s].caseId, "idle")
              /\ req' = SetReq(Disturb(req, s), s, Respond(req[s], 204, "", FALSE))
              /\ UNCHANGED dbFaults
  /\ UNCHANGED <<usage, fn, citations, rs, documents, nOps>>

\* -------------------------------------------------------- document upload
\* One uploaded file: no file gives 400; a failed extraction or INSERT is
\* collected in `errors` and gives 400; a stored document gives 201.
UploadInsert(s) ==
  /\ req[s].op = "upload"
  /\ req[s].pc = "insert"
  /\ IF ~req[s].body.file.present
       THEN /\ req' = SetReq(req, s, Respond(req[s], 400, "No files were uploaded.", FALSE))
            /\ UNCHANGED <<documents, dbFaults>>
       ELSE \E fails \in QueryFails :
              IF fails
                THEN /\ req' = SetReq(req, s, Respond([req[s] EXCEPT !.err = "insert"], 400, "", FALSE))
                     /\ dbFaults' = dbFaults + 1
                     /\ UNCHANGED documents
                ELSE /\ documents' = [documents EXCEPT ![req[s].body.docId] = req[s].body.file]
                     /\ req' = SetReq(Disturb(req, s), s, Respond(req[s], 201, "", FALSE))
                     /\ UNCHANGED dbFaults
  /\ UNCHANGED <<usage, fn, citations, rs, caseRow, nOps>>

\* ------------------------------------------------------------------ reads
\* GET /:id, /:id/documents, /:id/documents/:docId, /:id/activity
Read(s) ==
  /\ req[s].op = "get"
  /\ req[s].pc = "read"
  /\ \E fails \in QueryFails :
       IF fails
         THEN /\ req' = SetReq(req, s, Fail500(req[s], "read", FALSE))
              /\ dbFaults' = dbFaults + 1
         ELSE /\ req' = SetReq(req, s, Respond(req[s], 200, "", FALSE))
              /\ UNCHANGED dbFaults
  /\ UNCHANGED <<usage, fn, citations, rs, caseRow, documents, nOps>>

\* Requests served one at a time.
Next ==
  \E s \in {1} :
    \/ Start(s)
    \/ ReportLookup(s)
    \/ ReportSetProcessing(s)
    \/ InitialGetDocs(s)
    \/ ComparisonGetDocA(s)
    \/ ComparisonGetDocB(s)
    \/ ReportProviderReplies(s)
    \/ ReportResolverRejects(s)
    \/ ReportGenerate(s)
    \/ ReportPersist(s)
    \/ ReportCatch(s)
    \/ Lookup(s)
    \/ LiteratureGenerate(s)
    \/ PutUpdate(s)
    \/ DeleteGetDoc(s)
    \/ DeleteDocument(s)
    \/ DeleteResetState(s)
    \/ UploadInsert(s)
    \/ Read(s)

Spec == Init /\ [][Next]_vars

\* ------------------------------------------------- two requests at a time
\* The requests that write the case or its documents, sent by the owner.
RaceMenu ==
  { <<"initial-report", NoBody>>,
    <<"comparison-report", [kind |-> "comparison", reportAId |-> 1, reportBId |-> 2,
                            reportAText |-> Absent, reportBText |-> Absent]>>,
    <<"put", [kind |-> "put", initialReport |-> Absent, comparisonReport |-> Absent,
              appState |-> "absent"]>>,
    <<"delete-document", [kind |-> "doc", docId |-> 2]>> }

\* A new request takes the lowest free connection.
StartRace(s) ==
  /\ req[s].pc \in {"idle", "done"}
  /\ \A t \in Slots : t < s => req[t].pc \notin {"idle", "done"}
  /\ nOps < MaxRaceOps
  /\ \E m \in RaceMenu : req' = SetReq(req, s, NewReq(m[1], CaseOwner, ExistingCase, m[2]))
  /\ nOps' = nOps + 1
  /\ UNCHANGED <<usage, fn, citations, rs, caseRow, documents, dbFaults>>

\* The case has two documents with text and without citation-like lines, so
\* a report request has no candidate to resolve.
InitRace ==
  /\ citations = <<>>
  /\ rs = RsIdle
  /\ caseRow = [app_state |-> "idle", initial_report |-> NULL, comparison_report |-> NULL]
  /\ documents = [d \in DocIds |-> Plain]
  /\ req = [s \in Slots |-> IdleReq]
  /\ nOps = 0
  /\ dbFaults = 0
  /\ fn = FnIdle
  /\ usage = UsageIdle

NextRace ==
  \E s \in Slots :
    \/ StartRace(s)
    \/ ReportLookup(s)
    \/ ReportSetProcessing(s)
    \/ InitialGetDocs(s)
    \/ ComparisonGetDocA(s)
    \/ ComparisonGetDocB(s)
    \/ ReportGenerate(s)
    \/ ReportPersist(s)
    \/ ReportCatch(s)
    \/ Lookup(s)
    \/ PutUpdate(s)
    \/ DeleteGetDoc(s)
    \/ DeleteDocument(s)
    \/ DeleteResetState(s)

SpecRace == InitRace /\ [][NextRace]_vars

\* ------------------------------------------------ resolver run on its own
CandidateList(n) == [i \in 1..n |-> i]

InitResolver ==
  /\ citations \in {CandidateList(n) : n \in 0..MaxCitations}
  /\ rs = RsIdle
  /\ InitCases

CallResolver ==
  /\ rs.phase = "idle"
  /\ rs' = RsStart(citations)
  /\ UNCHANGED <<caseRow, documents, req, nOps, dbFaults, citations, fn, usage>>

ProviderReplies ==
  /\ rs.phase \in {"A", "B"}
  /\ \E outcome \in ProviderOutcomes : rs' = RsStep(rs, outcome)
  /\ UNCHANGED <<caseRow, documents, req, nOps, dbFaults, citations, fn, usage>>

NextResolver == CallResolver \/ ProviderReplies

SpecResolver == InitResolver /\ [][NextResolver]_vars

\* ------------------------------------------------- resolver: properties
MatchedIds(items) == {items[i].matchedCitation : i \in 1..Len(items)}

CallsOf(provider, cand) ==
  {i \in 1..Len(rs.calls) : rs.calls[i].provider = provider /\ rs.calls[i].cand = cand}

Hit(provider, cand) == \E i \in CallsOf(provider, cand) : rs.calls[i].hit
Miss(provider, cand) == \E i \in CallsOf(provider, cand) : ~rs.calls[i].hit

SourceOf(cand) ==
  {rs.resolved[i].source : i \in {j \in 1..Len(rs.resolved) : rs.resolved[j].matchedCitation = cand}}

\* The candidates the resolver looks at: the first DEFAULT_RESOLVE_LIMIT ones.
Considered == 1..Min(Len(citations), 8)

\* C7 as stated: when resolveLiteratureReferences returns, resolved and
\* unresolved together have as many entries as the list that was passed in,
\* and their candidate ids are disjoint and cover that whole list.
C7_PartitionOfInput ==
  rs.phase = "done" =>
    /\ Len(rs.resolved) + Len(rs.unresolved) = Len(citations)
    /\ MatchedIds(rs.resolved) \cap Range(rs.unresolved) = {}
    /\ MatchedIds(rs.resolved) \cup Range(rs.unresolved) = Range(citations)

\* C7 amended: when resolveLiteratureReferences returns, resolved and
\* unresolved together have min(|input|, 8) entries, and their candidate ids
\* are disjoint and cover exactly the first min(|input|, 8) input candidates.
C7_PartitionOfScoped ==
  rs.phase = "done" =>
    /\ Len(rs.resolved) + Len(rs.unresolved) = Min(Len(citations), 8)
    /\ MatchedIds(rs.resolved) \cap Range(rs.unresolved) = {}
    /\ MatchedIds(rs.resolved) \cup Range(rs.unresolved) = {citations[i] : i \in Considered}

C7_Witness ==
  /\ rs.phase = "done"
  /\ Len(citations) > 8
  /\ \E i \in 1..Len(rs.resolved) : rs.resolved[i].source = "crossref"
  /\ Len(rs.unresolved) > 0

\* C8: in every state of a resolver run, a candidate for which Semantic
\* Scholar returned a match has exactly one resolved item, tagged
\* "semantic-scholar", and CrossRef has not been queried for it.
C8_SemanticFirst ==
  \A cand \in Range(rs.scoped) :
    Hit("semantic-scholar", cand) =>
      /\ SourceOf(cand) = {"semantic-scholar"}
      /\ CallsOf("crossref", cand) = {}

C8_Witness ==
  /\ rs.phase = "done"
  /\ \E c1, c2 \in Range(rs.scoped) :
       /\ Hit("semantic-scholar", c1)
       /\ Hit("crossref", c2)

\* C9 as stated: the resolver never throws; a candidate whose two provider
\* calls both failed ends in unresolved and not in resolved; and every
\* candidate after it in the passed list has still been queried when the
\* resolver returns.
C9_FailureContainedWholeList ==
  /\ rs.phase # "threw"
  /\ rs.phase = "done" =>
       \A i \in 1..Len(citations) :
         (Miss("semantic-scholar", citations[i]) /\ Miss("crossref", citations[i])) =>
           /\ citations[i] \in Range(rs.unresolved)
           /\ citations[i] \notin MatchedIds(rs.resolved)
           /\ \A j \in (i+1)..Len(citations) :
                CallsOf("semantic-scholar", citations[j]) # {}

\* C9 amended: the resolver never throws; a candidate whose two provider
\* calls both failed ends in unresolved and not in resolved; and every later
\* candidate among the first 8 of the list has been queried and is resolved
\* or unresolved according to its own provider outcomes.
C9_FailureContained ==
  /\ rs.phase # "threw"
  /\ rs.phase = "done" =>
       \A i \in Considered :
         (Miss("semantic-scholar", citations[i]) /\ Miss("crossref", citations[i])) =>
           /\ citations[i] \in Range(rs.unresolved)
           /\ citations[i] \notin MatchedIds(rs.resolved)
           /\ \A j \in Considered : j > i =>
                LET c == citations[j] IN
                /\ Cardinality(CallsOf("semantic-scholar", c)) = 1
                /\ Hit("semantic-scholar", c) => SourceOf(c) = {"semantic-scholar"}
                /\ Miss("semantic-scholar", c) =>
                     /\ Cardinality(CallsOf("crossref", c)) = 1
                     /\ Hit("crossref", c) => SourceOf(c) = {"crossref"}
                     /\ Miss("crossref", c) =>
                          (c \in Range(rs.unresolved) /\ SourceOf(c) = {})

C9_Witness ==
  /\ rs.phase = "done"
  /\ rs.caught
  /\ Len(citations) >= 3
  /\ Miss("semantic-scholar", citations[1]) /\ Miss("crossref", citations[1])
  /\ Hit("semantic-scholar", citations[2])
  /\ Hit("crossref", citations[3])

\* ---------------------------------------------- report requests: properties
ReportColumn(row, op) ==
  IF op = "initial-report" THEN row.initial_report ELSE row.comparison_report

SameColumns(row, snapshot) ==
  /\ row.app_state = snapshot.app_state
  /\ row.initial_report = snapshot.initial_report
  /\ row.comparison_report = snapshot.comparison_report

\* Request s takes the step (more than being marked disturbed changes).
Acts(s) ==
  /\ req[s].pc \notin {"idle", "done"}
  /\ [req'[s] EXCEPT !.disturbed = req[s].disturbed] # req[s]

BothMissed(calls, cand) ==
  /\ \E i \in 1..Len(calls) :
       calls[i].cand = cand /\ calls[i].provider = "semantic-scholar" /\ ~calls[i].hit
  /\ \E i \in 1..Len(calls) :
       calls[i].cand = cand /\ calls[i].provider = "crossref" /\ ~calls[i].hit

\* C1: a report request that has written app_state = processing and was not
\* disturbed by another request has, once its response is sent, left the case
\* either in error or idle with its own text in its report column, never in
\* processing, whatever the status of the response.
C1_NeverLeftProcessing ==
  \A s \in Slots :
    LET r == req[s] IN
    (r.op \in ReportOps /\ r.pc = "done" /\ r.resp.status # 0 /\ r.wrote /\ ~r.disturbed) =>
      \/ caseRow.app_state = "error"
      \/ /\ caseRow.app_state = "idle"
         /\ r.gen \in {"text", "empty"}
         /\ ReportColumn(caseRow, r.op) = r.text

\* C2: when a report request whose generation call threw sends its response,
\* app_state is error, the response body has a message field, and both
\* report columns hold the values they had when the request started.
C2_GenerationFailure ==
  \A s \in Slots :
    LET r == req[s] IN
    (r.op \in ReportOps /\ r.pc = "done" /\ r.gen = "throw" /\ r.resp.status # 0
       /\ ~r.disturbed) =>
      /\ caseRow.app_state = "error"
      /\ r.resp.message # ""
      /\ caseRow.initial_report = r.before.initial_report
      /\ caseRow.comparison_report = r.before.comparison_report

C2_Witness ==
  \E s \in Slots :
    /\ req[s].op = "comparison-report" /\ req[s].pc = "done" /\ req[s].gen = "throw"
    /\ req[s].resp.status = 500
    /\ req[s].before.comparison_report > 0
    /\ caseRow.comparison_report = req[s].before.comparison_report

\* C3: a report or literature-review request for a case that does not exist
\* is answered 404, one from a caller who is neither owner nor admin 403, one
\* with missing required fields 400; and a request rejected in one of these
\* ways has changed no column of the case and made no provider and no
\* generation call.
Rejections == {"Case not found", "Forbidden", "required"}

C3_RejectedBeforeAnyEffect ==
  \A s \in Slots :
    LET r == req[s] IN
    (r.op \in ReportOps \cup {"literature-review"} /\ r.pc = "done") =>
      /\ (r.resp.status = 400 /\ r.resp.message = "required") \/ r.err # "none"
           \/ (r.caseId # ExistingCase => r.resp.status = 404 /\ r.resp.message = "Case not found")
      /\ (r.resp.status = 400 /\ r.resp.message = "required") \/ r.err # "none"
           \/ (r.caseId = ExistingCase /\ r.user \notin {CaseOwner, "admin"}
                 => r.resp.status = 403 /\ r.resp.message = "Forbidden")
      /\ r.resp.message \in Rejections =>
           /\ ~r.wrote
           /\ r.providerCalls = 0
           /\ r.gen = "none"
           /\ ~r.disturbed => SameColumns(caseRow, r.before)

C3_Witness ==
  \E s \in Slots :
    /\ req[s].op = "initial-report" /\ req[s].pc = "done"
    /\ req[s].resp.status = 403
    /\ req[s].user = "other"
    /\ caseRow.initial_report > 0

\* C4: whenever a report request has a provider call or its generation call
\* under way or behind it, its write of app_state = processing has completed;
\* and while those calls are under way, the stored state reads processing
\* unless another request has written the case since.
C4_ProcessingBeforeExternalCalls ==
  \A s \in Slots :
    LET r == req[s] IN
    r.op \in ReportOps =>
      /\ (r.pc \in {"resolve", "generate", "persist"} \/ Len(r.res.calls) > 0
            \/ r.providerCalls > 0 \/ r.gen # "none") => r.wrote
      /\ (r.pc \in {"resolve", "generate"} /\ ~r.disturbed) => caseRow.app_state = "processing"

C4_Witness ==
  \E s \in Slots :
    /\ req[s].op = "initial-report" /\ req[s].pc = "resolve"
    /\ Len(req[s].res.calls) > 0
    /\ caseRow.app_state = "processing"

\* C5: the step in which a report request stores its text sets the report
\* column of its kind to the generated text and app_state to idle together
\* and leaves the other report column as it was; and no step of a report
\* request changes a report column without making the state idle, or makes
\* the state idle without storing its text.
C5_AtomicPersist ==
  [][\A s \in Slots :
       (req[s].op \in ReportOps /\ Acts(s)) =>
         /\ (req[s].pc = "persist" /\ req'[s].resp.status = 200) =>
              /\ caseRow'.app_state = "idle"
              /\ ReportColumn(caseRow', req[s].op) = req[s].text
              /\ req[s].op = "initial-report" => caseRow'.comparison_report = caseRow.comparison_report
              /\ req[s].op = "comparison-report" => caseRow'.initial_report = caseRow.initial_report
         /\ (caseRow'.initial_report # caseRow.initial_report
               \/ caseRow'.comparison_report # caseRow.comparison_report) =>
              (req[s].pc = "persist" /\ caseRow'.app_state = "idle")
         /\ (caseRow'.app_state = "idle" /\ caseRow.app_state # "idle") =>
              (req[s].pc = "persist" /\ ReportColumn(caseRow', req[s].op) = req[s].text)
    ]_vars

C5_Witness ==
  \E s \in Slots :
    /\ req[s].op = "initial-report" /\ req[s].pc = "done" /\ req[s].resp.status = 200
    /\ req[s].gen = "text"
    /\ caseRow.app_state = "idle"
    /\ caseRow.initial_report = req[s].text
    /\ caseRow.comparison_report > 0
    /\ caseRow.comparison_report = req[s].before.comparison_report

\* C6 as stated: app_state, initial_report and comparison_report are changed
\* by steps of the report endpoints only.
C6_OnlyReportEndpoints ==
  [][caseRow' # caseRow => \E s \in Slots : Acts(s) /\ req[s].op \in ReportOps]_vars

\* C6 amended: the three columns are changed only by steps of the report
\* endpoints, of PUT /:id, and of DELETE of a case document; the document
\* delete changes app_state alone, to idle, and only when the row it read was
\* processing; upload, literature-review and reads change none of them.
C6_WritersOfCaseColumns ==
  [][caseRow' # caseRow =>
       \E s \in Slots :
         /\ Acts(s)
         /\ req[s].op \in ReportOps \cup {"put", "delete-document"}
         /\ req[s].op = "delete-document" =>
              /\ caseRow' = [caseRow EXCEPT !.app_state = "idle"]
              /\ req[s].row.app_state = "processing"
    ]_vars

C6_Witness ==
  \E s \in Slots :
    /\ req[s].op = "delete-document" /\ req[s].pc = "done" /\ req[s].resp.status = 204
    /\ req[s].before.app_state = "processing"
    /\ caseRow.app_state = "idle"

\* C10: provider failures and a rejected resolver call never send a report
\* request into its catch block: once the resolver stage is over the
\* generation call is made, candidates whose two provider calls failed show
\* in the prompt as unresolved only, and if generation and persistence
\* succeed the request answers 200 with the case idle and its text stored.
C10_ProviderFailuresContained ==
  \A s \in Slots :
    LET r == req[s] IN
    r.op \in ReportOps =>
      /\ r.err # "resolver"
      /\ ((r.providerMisses > 0 \/ r.fallback \/ Len(r.res.calls) > 0)
            /\ r.pc \in {"persist", "catch", "done"}) => r.gen # "none"
      /\ r.pc = "generate" =>
           \A cand \in Range(r.res.scoped) :
             BothMissed(r.res.calls, cand) =>
               /\ cand \in Range(PromptUnresolved(r))
               /\ cand \notin MatchedIds(PromptLiterature(r))
      /\ (r.pc = "done" /\ (r.providerMisses > 0 \/ r.fallback)
            /\ r.gen \in {"text", "empty"} /\ r.err = "none") =>
           /\ r.resp.status = 200
           /\ ~r.disturbed =>
                (caseRow.app_state = "idle" /\ ReportColumn(caseRow, r.op) = r.text)

C10_Witness ==
  \E s \in Slots :
    /\ req[s].op = "comparison-report" /\ req[s].pc = "done" /\ req[s].resp.status = 200
    /\ req[s].providerCalls >= 4
    /\ req[s].providerMisses = req[s].providerCalls
    /\ caseRow.app_state = "idle"
    /\ caseRow.comparison_report = req[s].text

\* ------------------------------------ resolver: order of the provider calls
\* Position of a candidate in the list handed to the resolver.
PosOf(cand) == CHOOSE i \in 1..Len(citations) : citations[i] = cand

\* Candidates whose loop iteration is over.
Processed ==
  {rs.scoped[i] : i \in 1..(IF rs.phase = "idle" THEN 0 ELSE Min(rs.idx - 1, Len(rs.scoped)))}

\* C11: in every state of a resolver run the provider calls made so far are
\* in input order of their candidates; Semantic Scholar was called exactly
\* once for every candidate whose iteration is over and at most once for any
\* candidate; CrossRef was called at most once per candidate, and each
\* CrossRef call directly follows the failed or empty Semantic Scholar call
\* for the same candidate; so no call is retried and no call for a later
\* candidate precedes a call for an earlier one.
C11_SequentialSingleAttempt ==
  /\ \A c \in Range(citations) :
       /\ Cardinality(CallsOf("semantic-scholar", c)) <= 1
       /\ Cardinality(CallsOf("crossref", c)) <= 1
  /\ \A c \in Processed : Cardinality(CallsOf("semantic-scholar", c)) = 1
  /\ \A k \in 1..Len(rs.calls) :
       /\ rs.calls[k].provider = "crossref" =>
            /\ k > 1
            /\ rs.calls[k-1] = [cand |-> rs.calls[k].cand, provider |-> "semantic-scholar",
                                hit |-> FALSE]
       /\ \A j \in 1..(k-1) : PosOf(rs.calls[j].cand) <= PosOf(rs.calls[k].cand)
       /\ rs.calls[k].provider = "semantic-scholar" =>
            \A j \in 1..(k-1) : PosOf(rs.calls[j].cand) < PosOf(rs.calls[k].cand)

C11_Witness ==
  /\ rs.phase = "done"
  /\ Len(citations) >= 3
  /\ Len(rs.calls) = 5
  /\ Hit("semantic-scholar", citations[1])
  /\ Miss("semantic-scholar", citations[2]) /\ Hit("crossref", citations[2])
  /\ Miss("semantic-scholar", citations[3]) /\ Miss("crossref", citations[3])

\* C12: in every state of a resolver run, and so in its result, every
\* resolved item's matchedCitation is a candidate of the input list, and no
\* two resolved items have the same matchedCitation.
C12_OneItemPerCandidate ==
  /\ \A i \in 1..Len(rs.resolved) : rs.resolved[i].matchedCitation \in Range(citations)
  /\ \A i, j \in 1..Len(rs.resolved) :
       rs.resolved[i].matchedCitation = rs.resolved[j].matchedCitation => i = j

C12_Witness ==
  /\ rs.phase = "done"
  /\ Len(rs.resolved) >= 3
  /\ \E i, j \in 1..Len(rs.resolved) :
       /\ rs.resolved[i].source = "semantic-scholar"
       /\ rs.resolved[j].source = "crossref"
  /\ Len(rs.unresolved) >= 1


\* ================================================ values and text helpers
\* JavaScript values that the helpers tell apart.
Undefined == [t |-> "undefined"]
Null == [t |-> "null"]
Str(s) == [t |-> "string", v |-> s]
Num(n) == [t |-> "number", v |-> n]
List(q) == [t |-> "array", v |-> q]

\* !value
Falsy(x) ==
  CASE x.t = "string" -> x.v = ""
    [] x.t = "number" -> x.v = 0
    [] x.t = "array" -> FALSE
    [] OTHER -> TRUE

\* a ?? b
NullishCoalesce(a, b) == IF a.t \in {"undefined", "null"} THEN b ELSE a

MinOf(S) == CHOOSE m \in S : \A n \in S : m <= n
MaxOf(S) == CHOOSE m \in S : \A n \in S : m >= n

Char(s, i) == SubSeq(s, i, i)
CharsOf(s) == {Char(s, i) : i \in 1..Len(s)}
DigitChars == CharsOf("0123456789")
UpperChars == CharsOf("ABCDEFGHIJKLMNOPQRSTUVWXYZ")
LowerChars == CharsOf("abcdefghijklmnopqrstuvwxyz")
SpaceChars == {" ", "\t", "\n", "\r"}                     \* \s
WordChars == DigitChars \cup UpperChars \cup LowerChars \cup {"_"}   \* \w
JournalChars == UpperChars \cup LowerChars \cup SpaceChars \cup {"&", "-"}
QuoteChars == {"\"", "'"}

\* String.prototype.trim
trim(s) ==
  LET keep == {i \in 1..Len(s) : Char(s, i) \notin SpaceChars}
  IN IF keep = {} THEN "" ELSE SubSeq(s, MinOf(keep), MaxOf(keep))

\* value.replace(/\s+/g, " "): every run of white space becomes one space
RECURSIVE CollapseSpaces(_)
CollapseSpaces(s) ==
  LET spaces == {i \in 1..Len(s) : Char(s, i) \in SpaceChars} IN
  IF spaces = {} THEN s
  ELSE LET i == MinOf(spaces)
           j == MinOf({k \in (i+1)..(Len(s)+1) : k > Len(s) \/ Char(s, k) \notin SpaceChars})
       IN SubSeq(s, 1, i - 1) \o " " \o CollapseSpaces(SubSeq(s, j, Len(s)))

\* value.replace(/\s+/g, " ").trim()
normalizeWhitespace(value) == trim(CollapseSpaces(value))

\* text.split(/\r?\n+/): the pieces between separators, a separator being an
\* optional carriage return followed by a run of line feeds.
RECURSIVE SplitLines(_, _)
SplitLines(s, start) ==
  LET seps == {i \in start..Len(s) :
                 \/ Char(s, i) = "\n"
                 \/ Char(s, i) = "\r" /\ i < Len(s) /\ Char(s, i+1) = "\n"} IN
  IF seps = {} THEN <<SubSeq(s, start, Len(s))>>
  ELSE LET i == MinOf(seps)
           nl == IF Char(s, i) = "\r" THEN i + 1 ELSE i
           after == MinOf({j \in (nl+1)..(Len(s)+1) : j > Len(s) \/ Char(s, j) # "\n"})
       IN <<SubSeq(s, start, i - 1)>> \o SplitLines(s, after)

\* .split(...).map(line => line.trim()).filter(Boolean)
NonBlankLines(text) ==
  LET pieces == SplitLines(text, 1)
      trimmed == [k \in 1..Len(pieces) |-> trim(pieces[k])]
  IN SelectSeq(trimmed, LAMBDA l : l # "")

\* /\b(19|20)\d{2}\b/ matching at position i
YearAtAnyCentury(line, i) ==
  /\ i + 3 <= Len(line)
  /\ \A k \in i..(i+3) : Char(line, k) \in DigitChars
  /\ (i = 1 \/ Char(line, i-1) \notin WordChars)
  /\ (i + 3 = Len(line) \/ Char(line, i+4) \notin WordChars)
YearAt(line, i) ==
  /\ i + 3 <= Len(line)
  /\ SubSeq(line, i, i+1) \in {"19", "20"}
  /\ Char(line, i+2) \in DigitChars /\ Char(line, i+3) \in DigitChars
  /\ (i = 1 \/ Char(line, i-1) \notin WordChars)
  /\ (i + 3 = Len(line) \/ Char(line, i+4) \notin WordChars)

\* line.match(yearRegex): the leftmost match, or null
yearMatch(line) ==
  LET at == {i \in 1..Len(line) : YearAt(line, i)}
  IN IF at = {} THEN Null ELSE Str(SubSeq(line, MinOf(at), MinOf(at) + 3))

\* Number.parseInt(digits, 10)
RECURSIVE parseInt(_)
parseInt(s) ==
  IF Len(s) = 0 THEN 0
  ELSE 10 * parseInt(SubSeq(s, 1, Len(s) - 1))
       + (CHOOSE d \in 0..9 : Char("0123456789", d + 1) = Char(s, Len(s)))

\* `${number}` for a non-negative integer
RECURSIVE NumberToString(_)
NumberToString(n) ==
  IF n < 10 THEN Char("0123456789", n + 1)
  ELSE NumberToString(n \div 10) \o Char("0123456789", (n % 10) + 1)

\* /"([^"]+)"|'([^']+)'/ matching at i: a quote, at least one other character,
\* and the same quote again.  (The typographic quote alternatives of the
\* pattern cannot match the ASCII texts used here.)
QuoteCloseAt(value, i) ==
  MinOf({j \in (i+1)..(Len(value)+1) : j > Len(value) \/ Char(value, j) = Char(value, i)})

QuotedAt(value, i) ==
  /\ Char(value, i) \in QuoteChars
  /\ QuoteCloseAt(value, i) <= Len(value)
  /\ QuoteCloseAt(value, i) >= i + 2

\* /\)\s*([^\.]+)\./ matching at i: the position of the period that ends it
\* (0 when there is no match) and the captured group.
ParenDotAt(value, i) ==
  LET dots == {d \in (i+1)..Len(value) : Char(value, d) = "."}
  IN IF Char(value, i) = ")" /\ dots # {} /\ MinOf(dots) > i + 1 THEN MinOf(dots) ELSE 0

ParenGroup(value, i) ==
  LET d == ParenDotAt(value, i)
      w == MinOf({k \in (i+1)..d : Char(value, k) \notin SpaceChars})
  IN IF w < d THEN SubSeq(value, w, d - 1) ELSE SubSeq(value, d - 1, d - 1)

\* guessTitleFromCitation
guessTitleFromCitation(value) ==
  LET quoted == {i \in 1..Len(value) : QuotedAt(value, i)}
      afterYear == {i \in 1..Len(value) : ParenDotAt(value, i) > 0}
  IN IF quoted # {}
       THEN Str(SubSeq(value, MinOf(quoted) + 1, QuoteCloseAt(value, MinOf(quoted)) - 1))
     ELSE IF afterYear # {} /\ Len(ParenGroup(value, MinOf(afterYear))) > 8
       THEN Str(normalizeWhitespace(ParenGroup(value, MinOf(afterYear))))
     ELSE Undefined

\* /\.?\s*([A-Z][A-Za-z\s&-]+)\s+\d{4}/ with its capital letter at c: the
\* run of journal characters after c ends in white space (position e) that
\* is followed by four digits; the group is c..e-1.
JournalRunEnd(line, c) ==
  MaxOf({e \in c..Len(line) : \A k \in (c+1)..e : Char(line, k) \in JournalChars})

JournalAt(line, c) ==
  /\ Char(line, c) \in UpperChars
  /\ LET e == JournalRunEnd(line, c) IN
       /\ e >= c + 2
       /\ Char(line, e) \in SpaceChars
       /\ e + 4 <= Len(line)
       /\ \A k \in (e+1)..(e+4) : Char(line, k) \in DigitChars

\* line.match(journal pattern): group 1 of the leftmost match, or null
journalMatch(line) ==
  LET at == {c \in 1..Len(line) : JournalAt(line, c)}
  IN IF at = {} THEN Null
     ELSE Str(SubSeq(line, MinOf(at), JournalRunEnd(line, MinOf(at)) - 1))

\* ======================================================= citation detector
DEFAULT_DETECTION_LIMIT == 6
PROMPT_DOCUMENT_CHAR_LIMIT == 6000

\* The CitationCandidate pushed for a qualifying line; index is the 0-based
\* position among the non-blank lines, uuid stands for crypto.randomUUID().
CandidateStatefulMatch(line, index, docId, uuid) ==
  [id |-> <<docId, index, uuid>>,
   rawText |-> line,
   sourceDocumentId |-> docId,
   titleGuess |-> IF uuid = 1 THEN guessTitleFromCitation(line) ELSE Undefined,
   year |-> IF yearMatch(line).t = "string" THEN Num(parseInt(yearMatch(line).v)) ELSE Undefined,
   journalGuess |-> IF journalMatch(line).t = "string" /\ Len(journalMatch(line).v) > 5
                      THEN Str(normalizeWhitespace(journalMatch(line).v)) ELSE Undefined]
Candidate(line, index, docId, uuid) ==
  [id |-> <<docId, index, uuid>>,
   rawText |-> line,
   sourceDocumentId |-> docId,
   titleGuess |-> guessTitleFromCitation(line),
   year |-> IF yearMatch(line).t = "string" THEN Num(parseInt(yearMatch(line).v)) ELSE Undefined,
   journalGuess |-> IF journalMatch(line).t = "string" /\ Len(journalMatch(line).v) > 5
                      THEN Str(normalizeWhitespace(journalMatch(line).v)) ELSE Undefined]

\* for (let index = 0; index < lines.length; index += 1) { ... }
RECURSIVE DetectLoop(_, _, _, _, _, _)
DetectLoop(lines, index, candidates, limit, docId, uuid) ==
  IF index >= Len(lines) \/ Len(candidates) >= limit THEN candidates
  ELSE LET line == lines[index + 1] IN
       IF yearMatch(line).t = "null" \/ Len(line) < 20
         THEN DetectLoop(lines, index + 1, candidates, limit, docId, uuid)
         ELSE DetectLoop(lines, index + 1,
                         Append(candidates, Candidate(line, index, docId, uuid)),
                         limit, docId, uuid)

\* detectReferenceCandidates(text, options) on the text itself
detectReferenceCandidatesInText(text, options, uuid) ==
  IF Falsy(text) THEN <<>>
  ELSE DetectLoop(NonBlankLines(text.v), 0, <<>>,
                  NullishCoalesce(options.limit, Num(DEFAULT_DETECTION_LIMIT)).v,
                  NullishCoalesce(options.sourceDocumentId, Str("doc")).v, uuid)

\* buildQueryFromCitation
buildQueryFromCitation(candidate) ==
  IF ~Falsy(candidate.titleGuess) THEN candidate.titleGuess.v
  ELSE IF ~Falsy(candidate.journalGuess) /\ ~Falsy(candidate.year)
    THEN candidate.journalGuess.v \o " " \o NumberToString(candidate.year.v)
  ELSE SubSeq(candidate.rawText, 1, Min(Len(candidate.rawText), 240))

\* The item querySemanticScholar builds from the first record of the answer.
semanticScholarItem(first, query, candidate) ==
  [title |-> NullishCoalesce(first.title, Str(query)),
   year |-> NullishCoalesce(first.year, candidate.year),
   source |-> "semantic-scholar",
   matchedCitation |-> candidate]

\* The item queryCrossref builds from the first record of the answer; the
\* record's year field stands for first.issued?.["date-parts"]?.[0]?.[0].
crossrefItem(first, query, candidate) ==
  [title |-> IF first.title.t = "array" /\ Len(first.title.v) > 0
               THEN first.title.v[1]
               ELSE NullishCoalesce(candidate.titleGuess, Str(query)),
   year |-> NullishCoalesce(first.year, candidate.year),
   source |-> "crossref",
   matchedCitation |-> candidate]

\* truncateForPrompt(text, limit = PROMPT_DOCUMENT_CHAR_LIMIT)
truncateForPromptNoMarker(text, limit) ==
  IF Falsy(text) THEN "[No extracted text available]"
  ELSE SubSeq(text.v, 1, Min(Len(text.v), NullishCoalesce(limit, Num(PROMPT_DOCUMENT_CHAR_LIMIT)).v))
truncateForPrompt(text, limit) ==
  IF Falsy(text) THEN "[No extracted text available]"
  ELSE IF Len(text.v) <= NullishCoalesce(limit, Num(PROMPT_DOCUMENT_CHAR_LIMIT)).v THEN text.v
  ELSE SubSeq(text.v, 1, NullishCoalesce(limit, Num(PROMPT_DOCUMENT_CHAR_LIMIT)).v)
       \o "\n\n[Truncated for AI prompt]"

\* ------------------------------------------- helper runs on their own
\* Lines an extracted text is made of: the scenario citation, a citation with
\* a quoted title and a journal before its year, one with the title after the
\* parenthesis, a short line, lines without a year in range, a line whose
\* years are glued to other word characters, and a padded line.
SampleLines ==
  << "Smith J. (2019). Outcomes in delayed diagnosis. Journal of Surgery 45:112.",
     "Doe A. \"Sepsis outcomes\" Annals of Medicine 2015; 12(3).",
     "Lee K (2001) Early mobilisation after hip fracture. Bone 2001",
     "See page 12 of 2019",
     "no year in this long line of text",
     "Old registry data from 1899 and 2100 only.",
     "  Trial NCT2019x and ref12019 were excluded.  ",
     "   Brown et al 2010 Lancet   " >>

Separators == {"\n", "\r\n\n \n"}

RECURSIVE JoinLines(_, _)
JoinLines(ls, sep) ==
  IF Len(ls) = 0 THEN ""
  ELSE IF Len(ls) = 1 THEN ls[1]
  ELSE ls[1] \o sep \o JoinLines(Tail(ls), sep)

\* Texts of up to MaxLines sample lines, and one with more qualifying lines
\* than DEFAULT_DETECTION_LIMIT.
SampleTexts ==
  {JoinLines([k \in 1..Len(l) |-> SampleLines[l[k]]], sep) :
     l \in UNION {[1..n -> 1..Len(SampleLines)] : n \in 0..MaxLines}, sep \in Separators}
  \cup {JoinLines([k \in 1..(DEFAULT_DETECTION_LIMIT + 1) |-> SampleLines[8]], "\n")}

\* A text of n characters.
RECURSIVE TextOfLength(_, _)
TextOfLength(s, n) ==
  IF Len(s) >= n THEN SubSeq(s, 1, n) ELSE TextOfLength(s \o s, n)

TruncateTexts ==
  {TextOfLength("abcdefghijklmnopqrstuvwxyz", n) :
     n \in (0..MaxTextLen) \cup {PROMPT_DOCUMENT_CHAR_LIMIT - 1, PROMPT_DOCUMENT_CHAR_LIMIT,
                                 PROMPT_DOCUMENT_CHAR_LIMIT + 1}}

NoItem == [title |-> Undefined, year |-> Undefined, source |-> "none", matchedCitation |-> Undefined]
NoRecord == [title |-> Undefined, year |-> Undefined]

TruncateInputs ==
  [name : {"truncateForPrompt"}, pc : {"call"},
   text : {Undefined, Null} \cup {Str(t) : t \in TruncateTexts},
   limit : {Undefined} \cup {Num(n) : n \in 0..MaxBudget},
   out : {""}]

DetectInputs ==
  [name : {"detectReferenceCandidates"}, pc : {"call"},
   text : {Undefined, Null} \cup {Str(t) : t \in SampleTexts},
   options : [limit : {Undefined} \cup {Num(n) : n \in 0..MaxLimit},
              sourceDocumentId : {Str("d1")}],
   first : {<<>>}, second : {<<>>}, uuid : {0},
   record : {NoRecord}, item : {NoItem}]

InitHelpers ==
  /\ fn \in TruncateInputs \cup DetectInputs
  /\ citations = <<>>
  /\ rs = RsIdle
  /\ caseRow = [app_state |-> "idle", initial_report |-> NULL, comparison_report |-> NULL]
  /\ documents = [d \in DocIds |-> NoDoc]
  /\ req = [s \in Slots |-> IdleReq]
  /\ nOps = 0
  /\ dbFaults = 0
  /\ usage = UsageIdle

UUIDs == {1, 2}

CallTruncate ==
  /\ fn.name = "truncateForPrompt"
  /\ fn.pc = "call"
  /\ fn' = [fn EXCEPT !.out = truncateForPrompt(fn.text, fn.limit), !.pc = "done"]
  /\ UNCHANGED <<citations, rs, caseRow, documents, req, nOps, dbFaults, usage>>

CallDetect ==
  /\ fn.name = "detectReferenceCandidates"
  /\ fn.pc = "call"
  /\ \E uuid \in UUIDs :
       fn' = [fn EXCEPT !.first = detectReferenceCandidatesInText(fn.text, fn.options, uuid),
                        !.uuid = uuid, !.pc = "again"]
  /\ UNCHANGED <<citations, rs, caseRow, documents, req, nOps, dbFaults, usage>>

\* A second pass over the same text with the same options; randomUUID does
\* not repeat a value.
CallDetectAgain ==
  /\ fn.name = "detectReferenceCandidates"
  /\ fn.pc = "again"
  /\ \E uuid \in UUIDs \ {fn.uuid} :
       fn' = [fn EXCEPT !.second = detectReferenceCandidatesInText(fn.text, fn.options, uuid),
                        !.pc = "detected"]
  /\ UNCHANGED <<citations, rs, caseRow, documents, req, nOps, dbFaults, usage>>

\* What the first record of a provider answer can carry as title and year.
SemanticRecords ==
  [title : {Undefined, Null, Str(""), Str("Found title")},
   year : {Undefined, Null, Num(2020)}]

CrossrefRecords ==
  [title : {Undefined, List(<<>>), List(<<Str("")>>), List(<<Str("Found title")>>),
            Str("Found title")},
   year : {Undefined, Num(2020)}]

\* A provider matches one detected candidate and maps its record to an item.
MapSemanticMatch ==
  /\ fn.name = "detectReferenceCandidates"
  /\ fn.pc = "detected"
  /\ \E k \in 1..Len(fn.first), first \in SemanticRecords :
       fn' = [fn EXCEPT !.record = first,
                        !.item = semanticScholarItem(first, buildQueryFromCitation(fn.first[k]),
                                                     fn.first[k]),
                        !.pc = "mapped"]
  /\ UNCHANGED <<citations, rs, caseRow, documents, req, nOps, dbFaults, usage>>

MapCrossrefMatch ==
  /\ fn.name = "detectReferenceCandidates"
  /\ fn.pc = "detected"
  /\ \E k \in 1..Len(fn.first), first \in CrossrefRecords :
       fn' = [fn EXCEPT !.record = first,
                        !.item = crossrefItem(first, buildQueryFromCitation(fn.first[k]),
                                              fn.first[k]),
                        !.pc = "mapped"]
  /\ UNCHANGED <<citations, rs, caseRow, documents, req, nOps, dbFaults, usage>>

NextHelpers ==
  \/ CallTruncate
  \/ CallDetect
  \/ CallDetectAgain
  \/ MapSemanticMatch
  \/ MapCrossrefMatch

SpecHelpers == InitHelpers /\ [][NextHelpers]_vars


\* --------------------------------------------------- helpers: properties
\* The matched record carries no title: absent, null, empty string or empty
\* title list.
RecordLacksTitle(first) == first.title \in {Undefined, Null, Str(""), List(<<>>)}

\* C13: every item a provider match is mapped to has a non-empty title, and
\* when the matched record has no title the item's title is the candidate's
\* guessed title or its raw text.
C13_NeverTitleless ==
  (fn.name = "detectReferenceCandidates" /\ fn.pc = "mapped") =>
    /\ fn.item.title.t = "string"
    /\ fn.item.title.v # ""
    /\ RecordLacksTitle(fn.record) =>
         fn.item.title \in {fn.item.matchedCitation.titleGuess,
                            Str(fn.item.matchedCitation.rawText)}

\* The values of the four-digit tokens of a line: four digits with no word
\* character on either side.
YearTokens(line) ==
  {parseInt(SubSeq(line, i, i + 3)) :
     i \in {j \in 1..(Len(line) - 3) :
              /\ \A k \in j..(j+3) : Char(line, k) \in DigitChars
              /\ (j = 1 \/ Char(line, j-1) \notin WordChars)
              /\ (j + 3 = Len(line) \/ Char(line, j+4) \notin WordChars)}}

Qualifies(line) == Len(line) >= 20 /\ \E y \in YearTokens(line) : y >= 1900 /\ y <= 2099

InputLines == IF Falsy(fn.text) THEN <<>> ELSE NonBlankLines(fn.text.v)

\* C14: for every text and every limit N >= 0 the detector returns at most N
\* candidates, in line order, each of them a trimmed line of the text that
\* is at least 20 characters long and holds a four-digit token in
\* 1900..2099; absent or empty text yields the empty list.
C14_DetectorOutput ==
  (fn.name = "detectReferenceCandidates" /\ fn.pc = "again") =>
    /\ fn.options.limit.t = "number" => Len(fn.first) <= fn.options.limit.v
    /\ \A k \in 1..Len(fn.first) :
         /\ fn.first[k].id[2] + 1 \in 1..Len(InputLines)
         /\ InputLines[fn.first[k].id[2] + 1] = fn.first[k].rawText
         /\ Qualifies(fn.first[k].rawText)
    /\ \A j, k \in 1..Len(fn.first) : j < k => fn.first[j].id[2] < fn.first[k].id[2]
    /\ Falsy(fn.text) => fn.first = <<>>

C14_Witness ==
  /\ fn.name = "detectReferenceCandidates"
  /\ fn.pc = "again"
  /\ fn.options.limit = Num(1)
  /\ Len(fn.first) = 1
  /\ Cardinality({k \in 1..Len(InputLines) : Qualifies(InputLines[k])}) >= 2

Marker == "\n\n[Truncated for AI prompt]"
Budget == NullishCoalesce(fn.limit, Num(PROMPT_DOCUMENT_CHAR_LIMIT)).v

\* C16 as stated: for every text and budget, a text longer than the budget
\* comes back as its first `budget` characters followed by the marker
\* (length budget + len(marker)), and a text of length at or under the
\* budget, the empty string included, comes back unchanged.
C16_TruncateOrUnchanged ==
  (fn.name = "truncateForPrompt" /\ fn.pc = "done" /\ fn.text.t = "string") =>
    /\ Len(fn.text.v) > Budget =>
         /\ fn.out = SubSeq(fn.text.v, 1, Budget) \o Marker
         /\ Len(fn.out) = Budget + Len(Marker)
         /\ SubSeq(fn.out, Len(fn.out) - Len(Marker) + 1, Len(fn.out)) = Marker
    /\ Len(fn.text.v) <= Budget => fn.out = fn.text.v

\* C16 amended: the same for every non-empty text; the empty string and an
\* absent text come back as the placeholder "[No extracted text available]".
C16_TruncateOrUnchangedNonEmpty ==
  (fn.name = "truncateForPrompt" /\ fn.pc = "done") =>
    IF fn.text.t = "string" /\ fn.text.v # ""
      THEN /\ Len(fn.text.v) > Budget =>
                /\ fn.out = SubSeq(fn.text.v, 1, Budget) \o Marker
                /\ Len(fn.out) = Budget + Len(Marker)
                /\ SubSeq(fn.out, Len(fn.out) - Len(Marker) + 1, Len(fn.out)) = Marker
           /\ Len(fn.text.v) <= Budget => fn.out = fn.text.v
      ELSE fn.out = "[No extracted text available]"

C16_Witness ==
  /\ fn.name = "truncateForPrompt"
  /\ fn.pc = "done"
  /\ fn.text.t = "string"
  /\ Len(fn.text.v) = PROMPT_DOCUMENT_CHAR_LIMIT + 1
  /\ fn.limit = Undefined
  /\ Len(fn.out) = PROMPT_DOCUMENT_CHAR_LIMIT + Len(Marker)

\* C18: for a document whose only line is the Smith (2019) citation the
\* detector yields exactly one candidate, with year 2019 and journalGuess
\* "Journal of Surgery", and every item a provider match for it is mapped to
\* has year 2019, whether or not the record has a year of its own.
C18_SmithScenario ==
  (/\ fn.name = "detectReferenceCandidates"
   /\ fn.pc # "call"
   /\ fn.text = Str(SampleLines[1])
   /\ fn.options.limit \in {Undefined, Num(1), Num(2)}) =>
    /\ Len(fn.first) = 1
    /\ fn.first[1].year = Num(2019)
    /\ fn.first[1].journalGuess = Str("Journal of Surgery")
    /\ fn.pc = "mapped" => fn.item.year = Num(2019)

\* ------------------------------------------- zero documents, the usage log
\* C17: an initial-report request on a case with no document has no
\* candidate, gets an empty result from the resolver without any provider
\* call, puts the "no documents" placeholder in its prompt as the documents
\* block, and when generation and persistence succeed answers 200 with the
\* case idle and the report stored.
C17_ZeroDocuments ==
  \A s \in Slots :
    LET r == req[s] IN
    (r.op = "initial-report" /\ r.docBlock \notin {"none", "blocks"}) =>
      /\ r.pc # "resolve"
      /\ r.res.scoped = <<>> /\ r.res.resolved = <<>> /\ r.res.unresolved = <<>>
      /\ r.res.calls = <<>> /\ r.providerCalls = 0
      /\ r.docBlock = buildExpertOpinionsBlock(<<>>)
      /\ (r.pc = "done" /\ r.gen \in {"text", "empty"} /\ r.err = "none") =>
           /\ r.resp.status = 200
           /\ ~r.disturbed =>
                (caseRow.app_state = "idle" /\ caseRow.initial_report = r.text)

\* C19: every call of callOpenAI made by a report or literature-review
\* request whose log writes all went through has left exactly one usage log
\* entry: "success" when the call returned text, "error" when it failed for
\* whatever reason, a missing API key included.
C19_OneLogEntryPerAttempt ==
  \A s \in Slots :
    LET r == req[s] IN
    (r.gen # "none" /\ ~r.logFailed) =>
      r.logs = <<IF r.gen = "throw" THEN "error" ELSE "success">>

OnlyUsage == UNCHANGED <<citations, rs, caseRow, documents, req, nOps, fn>>

\* INSERT INTO ai_usage_logs by logAiEvent: one row per entry that was logged.
InsertUsage(u, caseId, statuses) ==
  IF Len(statuses) = 0 THEN u
  ELSE [u EXCEPT !.log = u.log \cup {[id |-> u.nextId, caseId |-> caseId, status |-> statuses[1]]},
                 !.nextId = u.nextId + 1]

\* One callOpenAI call with metadata, made for a case that exists.
GenerationAttempt ==
  /\ usage.nextId <= MaxLogEntries
  /\ \E caseId \in usage.cases, outcome \in StructuredOutcomes \cup GenerationOutcomes,
        logFails \in QueryFails :
       /\ logFails => outcome # "nokey"
       /\ usage' = InsertUsage(usage, caseId, callOpenAI(outcome, logFails).logs)
       /\ dbFaults' = IF logFails THEN dbFaults + 1 ELSE dbFaults
  /\ OnlyUsage

\* DELETE /:id arrives.
DeleteCaseStart ==
  /\ usage.del.pc \in {"idle", "done"}
  /\ \E user \in Users, caseId \in LogCases :
       usage' = [usage EXCEPT !.del = [pc |-> "lookup", user |-> user, caseId |-> caseId,
                                       status |-> 0]]
  /\ UNCHANGED dbFaults
  /\ OnlyUsage

DeleteResponds(u, status) == [u EXCEPT !.del.pc = "done", !.del.status = status]

\* SELECT owner FROM cases WHERE id = $1, then 204 for no row, 403 for a
\* caller who is neither the owner nor an admin.
DeleteCaseLookup ==
  /\ usage.del.pc = "lookup"
  /\ \E fails \in QueryFails :
       IF fails
         THEN /\ usage' = DeleteResponds(usage, 500)
              /\ dbFaults' = dbFaults + 1
         ELSE /\ usage' =
                   IF usage.del.caseId \notin usage.cases THEN DeleteResponds(usage, 204)
                   ELSE IF ~canAccessCase(usage.del.user, CaseOwner) THEN DeleteResponds(usage, 403)
                   ELSE [usage EXCEPT !.del.pc = "delete"]
              /\ UNCHANGED dbFaults
  /\ OnlyUsage

\* ai_usage_logs.case_id REFERENCES cases(id) ON DELETE CASCADE
OnDeleteCascade(log, caseId) == {e \in log : e.caseId # caseId}

\* DELETE FROM cases WHERE id = $1
DeleteCaseRow ==
  /\ usage.del.pc = "delete"
  /\ \E fails \in QueryFails :
       IF fails
         THEN /\ usage' = DeleteResponds(usage, 500)
              /\ dbFaults' = dbFaults + 1
         ELSE /\ usage' = DeleteResponds(
                   [usage EXCEPT !.cases = usage.cases \ {usage.del.caseId},
                                 !.log = OnDeleteCascade(usage.log, usage.del.caseId)], 204)
              /\ UNCHANGED dbFaults
  /\ OnlyUsage

\* GET /ai-usage: SELECT COUNT(*) ... FROM ai_usage_logs
UsageQuery ==
  /\ usage' = [usage EXCEPT !.totalCalls = Cardinality(usage.log)]
  /\ UNCHANGED dbFaults
  /\ OnlyUsage

NextLog ==
  \/ GenerationAttempt
  \/ DeleteCaseStart
  \/ DeleteCaseLookup
  \/ DeleteCaseRow
  \/ UsageQuery

SpecLog == Init /\ [][NextLog]_vars

\* C21: the usage log is append-only: every entry that exists before a step
\* of the system exists unchanged after it, so the set of entries only grows.
C21_AppendOnlyLog == [][usage.log \subseteq usage'.log]_vars

\* ------------------------------------------- report requests: failures
\* C22: every report request that failed (at the case lookup, at a document
\* query, at the generation call, at the UPDATE that stores the report, or at
\* the write of the error state) has, once its handler is over, sent a
\* response that carries a message.
C22_FailureAlwaysAnswered ==
  \A s \in Slots :
    LET r == req[s] IN
    (r.op \in ReportOps /\ r.pc = "done" /\ r.err # "none") =>
      /\ r.resp.status >= 400
      /\ r.resp.message # ""

\* C23: a literature-review request whose generation call returned content
\* that is malformed for a structured answer (text that is no JSON, or JSON
\* that is no object, such as null) does not fail: it is answered 200 with
\* the minimal result built around the raw text.
C23_MalformedDegrades ==
  \A s \in Slots :
    LET r == req[s] IN
    (r.op = "literature-review" /\ r.pc = "done" /\ r.gen \in {"nonjson", "null"}) =>
      /\ r.resp.status = 200
      /\ r.err = "none"

\* C24: a report request that no other request disturbed and that has sent
\* its response has, when the provider answered with empty content or when
\* the UPDATE storing the report failed, left the case in error with an error
\* response and the report column as it was; and it has left the case idle
\* only with a non-empty generated text stored.
C24_UnusableOutputIsAnError ==
  \A s \in Slots :
    LET r == req[s] IN
    (r.op \in ReportOps /\ r.pc = "done" /\ r.wrote /\ r.resp.status # 0 /\ ~r.disturbed) =>
      /\ (r.gen = "empty" \/ r.err = "persist") =>
           /\ caseRow.app_state = "error"
           /\ r.resp.status >= 400
           /\ ReportColumn(caseRow, r.op) = ReportColumn(r.before, r.op)
      /\ (caseRow.app_state = "idle" /\ r.resp.status = 200) =>
           /\ r.gen = "text"
           /\ ReportColumn(caseRow, r.op) = r.text
           /\ r.text # EmptyText

\* C30: a report request writes app_state = error only after it has passed
\* the existence and access checks and written processing: as long as it has
\* not written processing (its lookup failed, or it was rejected), and no
\* other request wrote the case, the state and both report columns are what
\* they were when it arrived.
C30_ErrorOnlyAfterProcessing ==
  \A s \in Slots :
    LET r == req[s] IN
    (r.op \in ReportOps /\ ~r.wrote /\ ~r.disturbed) => SameColumns(caseRow, r.before)

\* ------------------------------------------------ the error state, retries
\* The step takes the stored state out of error.
LeavesError == caseRow.app_state = "error" /\ caseRow'.app_state # "error"

\* A report request makes its generation call once: the call is made by a
\* request that has made none, and a request that has made one never comes
\* back to it.
OneGenerationCall(s) ==
  req[s].op \in ReportOps =>
    /\ req[s].pc = "generate" => (req[s].gen = "none" /\ req'[s].gen # "none")
    /\ req[s].gen # "none" => (req'[s].gen = req[s].gen /\ req'[s].pc # "generate")
    /\ req[s].pc = "catch" => req'[s].pc = "done"

Handler(s) ==
  \/ ReportLookup(s)
  \/ ReportSetProcessing(s)
  \/ InitialGetDocs(s)
  \/ ComparisonGetDocA(s)
  \/ ComparisonGetDocB(s)
  \/ ReportGenerate(s)
  \/ ReportPersist(s)
  \/ ReportCatch(s)
  \/ Lookup(s)
  \/ PutUpdate(s)
  \/ DeleteGetDoc(s)
  \/ DeleteDocument(s)
  \/ DeleteResetState(s)

Running(s) == req[s].pc \notin {"idle", "done"}

\* The two requests in the slots are report requests, the only requests so
\* far, and both have been answered 200.
BothSucceeded ==
  /\ nOps = 2
  /\ \A s \in Slots : /\ req[s].op \in ReportOps
                      /\ req[s].pc = "done"
                      /\ req[s].resp.status = 200

\* The texts stored by the requests of one kind.
TextsOf(op) == {req[s].text : s \in {t \in Slots : req[t].op = op}}

\* C25: two report requests on one case, in every interleaving: each write
\* of a report request lands whole on the row as it is then, whatever the
\* other request wrote before (the last write wins); when both have
\* succeeded the case is idle and each report column holds the text of a
\* request of its kind, or its initial value when none stored one; and a
\* request that is under way can always take its next step.
C25_LastWriteWins ==
  /\ [](BothSucceeded =>
          /\ caseRow.app_state = "idle"
          /\ caseRow.initial_report \in
               (IF TextsOf("initial-report") = {} THEN {NULL} ELSE TextsOf("initial-report"))
          /\ caseRow.comparison_report \in
               (IF TextsOf("comparison-report") = {} THEN {NULL} ELSE TextsOf("comparison-report")))
  /\ [](\A s \in Slots : (Running(s) /\ req[s].op \in ReportOps) => ENABLED Handler(s))
  /\ [][\A s \in Slots :
          (Acts(s) /\ req[s].op \in ReportOps) =>
            /\ caseRow' # caseRow =>
                 caseRow' \in {ProcessingWrite(caseRow, req[s].caseId),
                               CatchWrite(caseRow, req[s].caseId),
                               PersistReport(caseRow, req[s].op, req[s].text)}
            /\ (req[s].pc = "persist" /\ req'[s].resp.status = 200) =>
                 /\ caseRow'.app_state = "idle"
                 /\ ReportColumn(caseRow', req[s].op) = req[s].text
      ]_vars

\* Two initial-report requests ran side by side and both succeeded; the one
\* that arrived first stored its text last.
C25_Witness ==
  /\ BothSucceeded
  /\ \A s \in Slots : req[s].op = "initial-report" /\ req[s].disturbed
  /\ req[1].id = 1 /\ req[2].id = 2
  /\ caseRow.app_state = "idle"
  /\ caseRow.initial_report = req[1].text

\* Request s completes its write of app_state = processing in this step.
WritesProcessing(s) ==
  /\ Acts(s)
  /\ req[s].op \in ReportOps
  /\ req[s].pc = "setProcessing"
  /\ req'[s].pc # "catch"

\* C27 as stated: whenever a report request writes app_state = processing,
\* the stored state just before that write is idle or error.
C27_ProcessingFromIdleOrError ==
  [][\A s \in Slots : WritesProcessing(s) => caseRow.app_state \in {"idle", "error"}]_vars

\* C27 amended: a report request that has passed the existence and access
\* checks writes app_state = processing and goes on to its document queries
\* whatever the stored state is, processing included: a request that arrives
\* while another report request is in flight starts its own pipeline.
C27_ProcessingFromAnyState ==
  /\ [](\A s \in Slots :
          (req[s].op \in ReportOps /\ req[s].pc = "setProcessing") =>
            ENABLED ReportSetProcessing(s))
  /\ [][\A s \in Slots :
          WritesProcessing(s) =>
            /\ caseRow'.app_state = "processing"
            /\ req'[s].wrote
            /\ req'[s].pc = IF req[s].op = "initial-report" THEN "getDocs" ELSE "getDocA"
      ]_vars

\* Two report pipelines run side by side: the second request found the case
\* in processing, wrote processing again and is past its document queries.
C27_Witness ==
  /\ \A s \in Slots : req[s].op \in ReportOps /\ req[s].wrote
  /\ req[1].pc \in {"getDocs", "getDocA", "getDocB", "generate", "persist"}
  /\ req[2].pc \in {"generate", "persist"}
  /\ req[2].row.app_state = "processing"
  /\ caseRow.app_state = "processing"

\* The body of the case update carries none of the report and state fields.
NameOnly(body) ==
  /\ body.kind = "put"
  /\ body.initialReport = Absent
  /\ body.comparisonReport = Absent
  /\ body.appState = "absent"

\* C28: a case update whose body sets only the name or the focus fields
\* leaves app_state, initial_report and comparison_report as the latest
\* write left them, in every interleaving with a report request: no step of
\* such an update changes any of the three columns.
C28_UpdateKeepsReportColumns ==
  [][\A s \in Slots :
       (Acts(s) /\ req[s].op = "put" /\ NameOnly(req[s].body)) => caseRow' = caseRow
    ]_vars

\* The pipeline of the report request in slot s is in flight: it has written
\* processing and has not yet made its final write of idle or error.
InFlight(s) ==
  /\ req[s].op \in ReportOps
  /\ req[s].wrote
  /\ req[s].pc \in {"getDocs", "getDocA", "getDocB", "resolve", "generate", "persist", "catch"}

\* C29 as stated: in every reachable state, while a report pipeline is in
\* flight the stored app_state of its case is processing.
C29_ProcessingWhileInFlight ==
  \A s \in Slots : InFlight(s) => caseRow.app_state = "processing"

\* C29 amended: while a report pipeline is in flight the stored app_state is
\* processing unless another request has written the case since; and the
\* steps that take the state out of processing under a pipeline in flight
\* are the final write of another report request, the reset to idle of a
\* document delete that had read processing, and the write of a case update.
C29_ProcessingUnlessOverwritten ==
  /\ [](\A s \in Slots : (InFlight(s) /\ ~req[s].disturbed) => caseRow.app_state = "processing")
  /\ [][\A s \in Slots :
          (InFlight(s) /\ ~Acts(s)
             /\ caseRow.app_state = "processing" /\ caseRow'.app_state # "processing") =>
            \E t \in Slots \ {s} :
              /\ Acts(t)
              /\ req'[s].disturbed
              /\ \/ req[t].op \in ReportOps /\ req[t].pc \in {"persist", "catch"}
                 \/ /\ req[t].op = "delete-document"
                    /\ req[t].pc = "resetState"
                    /\ req[t].row.app_state = "processing"
                    /\ caseRow'.app_state = "idle"
                 \/ req[t].op = "put" /\ req[t].pc = "update"
      ]_vars

\* A document delete that read processing has reset the state to idle while
\* the report pipeline that wrote processing is at its generation call.
C29_Witness ==
  /\ InFlight(1) /\ req[1].pc = "generate" /\ req[1].disturbed
  /\ req[2].op = "delete-document" /\ req[2].pc = "done" /\ req[2].resp.status = 204
  /\ caseRow.app_state = "idle"

====
